---- MODULE Spec2Model ----
(***************************************************************************)
(* A model of textract_to_ddb.py: parse_first_table (reconstruction of the *)
(* first table of a Textract block list) and process (reconciliation of    *)
(* the extracted rows against the employee profiles).                      *)
(*                                                                         *)
(* Python strings are sequences of one-character strings, None is the      *)
(* value None below, a dict is a function whose DOMAIN is its key set, and *)
(* a float produced by SequenceMatcher.ratio() or by the percentage        *)
(* division is the exact fraction <<numerator, denominator>> in lowest     *)
(* terms.                                                                  *)
(***************************************************************************)
EXTENDS Integers, Sequences, FiniteSets, TLC

VARIABLES
    pc,                 \* position in parse_first_table / process
    blocks,             \* parse_first_table: the argument
    table_blk,          \* parse_first_table: the selected TABLE block
    cells,              \* parse_first_table: (r, c) -> text
    rmax, cmax,         \* parse_first_table: grid extent
    h_raws,             \* parse_first_table: h_raw of each column
    header,             \* parse_first_table: key of each column
    out_rows,           \* parse_first_table: the rows returned
    all_profiles,       \* process: the roster, in dict iteration order
    rows,               \* process: the rows of the sheet
    matched_employees,  \* process
    processed_records,  \* process
    extra_names,        \* process
    unmatched_employees,\* process
    overall_match_pct,  \* process
    raised              \* the exception that left the function, or None

parseVars == <<blocks, table_blk, cells, rmax, cmax, h_raws, header, out_rows>>
procVars == <<all_profiles, rows, matched_employees, processed_records,
              extra_names, unmatched_employees, overall_match_pct>>
vars == <<pc, parseVars, procVars, raised>>

(***************************************************************************)
(* Bounds.                                                                 *)
(***************************************************************************)
MaxCells == 3
MaxWords == 3
MaxRows == 2

(***************************************************************************)
(* Python values and string methods.                                       *)
(***************************************************************************)
None == <<"None">>
AttributeError == <<"AttributeError">>
ZeroDivisionError == <<"ZeroDivisionError">>

Or(x, d) == IF x = None \/ x = <<>> THEN d ELSE x

RECURSIVE LStrip(_)
LStrip(s) == IF s # <<>> /\ Head(s) = " " THEN LStrip(Tail(s)) ELSE s

RECURSIVE RStrip(_)
RStrip(s) ==
    IF s # <<>> /\ s[Len(s)] = " " THEN RStrip(SubSeq(s, 1, Len(s) - 1)) ELSE s

Strip(s) == RStrip(LStrip(s))

UpperCase ==
    << "A", "B", "C", "D", "E", "F", "G", "H", "I", "J", "K", "L", "M",
       "N", "O", "P", "Q", "R", "S", "T", "U", "V", "W", "X", "Y", "Z" >>

LowerCase ==
    << "a", "b", "c", "d", "e", "f", "g", "h", "i", "j", "k", "l", "m",
       "n", "o", "p", "q", "r", "s", "t", "u", "v", "w", "x", "y", "z" >>

\* ch.lower()
LowerCh(ch) ==
    IF \E i \in DOMAIN UpperCase : UpperCase[i] = ch
    THEN LowerCase[CHOOSE i \in DOMAIN UpperCase : UpperCase[i] = ch]
    ELSE ch

RECURSIVE Lower(_)
Lower(s) == IF s = <<>> THEN <<>> ELSE <<LowerCh(Head(s))>> \o Lower(Tail(s))

RECURSIVE RemoveSpaces(_)
RemoveSpaces(s) ==
    IF s = <<>> THEN <<>>
    ELSE IF Head(s) = " " THEN RemoveSpaces(Tail(s))
    ELSE <<Head(s)>> \o RemoveSpaces(Tail(s))

Contains(sub, s) ==
    \E i \in 0..(Len(s) - Len(sub)) : SubSeq(s, i + 1, i + Len(sub)) = sub

DigitCh(d) ==
    CASE d = 0 -> "0" [] d = 1 -> "1" [] d = 2 -> "2" [] d = 3 -> "3"
      [] d = 4 -> "4" [] d = 5 -> "5" [] d = 6 -> "6" [] d = 7 -> "7"
      [] d = 8 -> "8" [] d = 9 -> "9"

RECURSIVE IntStr(_)
IntStr(n) ==
    IF n < 10 THEN <<DigitCh(n)>> ELSE IntStr(n \div 10) \o <<DigitCh(n % 10)>>

\* " ".join(parts)
RECURSIVE Join(_)
Join(parts) ==
    IF parts = <<>> THEN <<>>
    ELSE IF Len(parts) = 1 THEN parts[1]
    ELSE parts[1] \o <<" ">> \o Join(Tail(parts))

Max(a, b) == IF a >= b THEN a ELSE b

\* d.get(k) of a dict d
Get(d, k) == IF k \in DOMAIN d THEN d[k] ELSE None

\* d[k] = v
Put(d, k, v) == [x \in DOMAIN d \cup {k} |-> IF x = k THEN v ELSE d[x]]

EmptyDict == [x \in {} |-> None]

(***************************************************************************)
(* Literals of the source.                                                 *)
(***************************************************************************)
S_name == <<"n", "a", "m", "e">>
S_employee == <<"e", "m", "p", "l", "o", "y", "e", "e">>
S_id == <<"i", "d">>
S_room == <<"r", "o", "o", "m">>
S_wake == <<"w", "a", "k", "e">>
S_sign == <<"s", "i", "g", "n">>
S_Col == <<"C", "o", "l">>
S_X == <<"[", "X", "]">>
K_Name == <<"N", "a", "m", "e">>
K_EmployeeID == <<"E", "m", "p", "l", "o", "y", "e", "e", "I", "D">>
K_RoomNumber == <<"R", "o", "o", "m", "N", "u", "m", "b", "e", "r">>
K_Wake == <<"W", "a", "k", "e">>
K_Signature == <<"S", "i", "g", "n", "a", "t", "u", "r", "e">>
S_UNKNOWN == <<"U", "N", "K", "N", "O", "W", "N">>

(***************************************************************************)
(* parse_first_table and _text_from.                                       *)
(***************************************************************************)
\* A block; a field the provider leaves out holds None (Text), "None"
\* (SelectionStatus) or the default the code reads it with (RowIndex,
\* ColumnIndex: 0).
Block(id, type, rels, r, c, text, sel) ==
    [Id |-> id, BlockType |-> type, Relationships |-> rels,
     RowIndex |-> r, ColumnIndex |-> c, Text |-> text, SelectionStatus |-> sel]

\* what idmap.get(cid) and next(..., None) give when there is no block
NoBlock == Block(<<"none", 0>>, "None", <<>>, 0, 0, None, "None")

\* idmap = {blk.get("Id"): blk for blk in blocks if "Id" in blk}
Idmap(blks) ==
    [id \in {blks[i].Id : i \in DOMAIN blks} |->
        blks[CHOOSE i \in DOMAIN blks :
                /\ blks[i].Id = id
                /\ \A j \in DOMAIN blks : blks[j].Id = id => j <= i]]

\* idmap.get(cid)
GetBlock(idmap, cid) == IF cid \in DOMAIN idmap THEN idmap[cid] ELSE NoBlock

\* the ids of a block's CHILD relationships, in the order the loops visit them
RECURSIVE ChildIdsOf(_)
ChildIdsOf(rels) ==
    IF rels = <<>> THEN <<>>
    ELSE (IF Head(rels).Type = "CHILD" THEN Head(rels).Ids ELSE <<>>)
         \o ChildIdsOf(Tail(rels))

\* the list out of _text_from after visiting ids
RECURSIVE TextParts(_, _)
TextParts(ids, idmap) ==
    IF ids = <<>> THEN <<>>
    ELSE LET wb == GetBlock(idmap, Head(ids))
             rest == TextParts(Tail(ids), idmap)
         IN  IF wb = NoBlock THEN rest
             ELSE IF wb.BlockType = "WORD" THEN <<Or(wb.Text, <<>>)>> \o rest
             ELSE IF wb.BlockType = "SELECTION_ELEMENT"
                     /\ wb.SelectionStatus = "SELECTED" THEN <<S_X>> \o rest
             ELSE rest

text_from(block, idmap) ==
    Strip(Join(SelectSeq(TextParts(ChildIdsOf(block.Relationships), idmap),
                         LAMBDA t : t # <<>>)))

\* table_blk = next((blk for blk in blocks if BlockType == "TABLE"), None)
FirstTable(blks) ==
    IF \E i \in DOMAIN blks : blks[i].BlockType = "TABLE"
    THEN blks[CHOOSE i \in DOMAIN blks :
                /\ blks[i].BlockType = "TABLE"
                /\ \A j \in DOMAIN blks : blks[j].BlockType = "TABLE" => i <= j]
    ELSE NoBlock

\* SkipChild without the test of the block type
SkipMissingOnly(cell) == cell = NoBlock

\* whether the loop over the table's child ids skips cid (line 42)
SkipChild(cell) == cell = NoBlock \/ cell.BlockType # "CELL"

\* the loop over the table's child ids: acc is [cells, rmax, cmax, raised]
RECURSIVE ReadCells(_, _, _)
ReadCells(ids, idmap, acc) ==
    IF ids = <<>> \/ acc.raised # None THEN acc
    ELSE LET cell == GetBlock(idmap, Head(ids))
         IN  IF SkipChild(cell) THEN ReadCells(Tail(ids), idmap, acc)
             ELSE IF cell = NoBlock   \* None.get(...)
             THEN [acc EXCEPT !.raised = AttributeError]
             ELSE LET r == cell.RowIndex
                      c == cell.ColumnIndex
                  IN  ReadCells(Tail(ids), idmap,
                        [cells |-> Put(acc.cells, <<r, c>>, text_from(cell, idmap)),
                         rmax |-> Max(acc.rmax, r),
                         cmax |-> Max(acc.cmax, c),
                         raised |-> acc.raised])

\* HeaderText with the empty string in place of "Col<c>"
HeaderTextOrEmpty(cs, c) == Or(Get(cs, <<1, c>>), <<>>)

\* cells.get((1, c)) or f"Col{c}"
HeaderText(cs, c) == Or(Get(cs, <<1, c>>), S_Col \o IntStr(c))

\* h_raw of column c
HRaw(cs, c) == Lower(Strip(HeaderText(cs, c)))

\* Classify with the test for "employee" and "id" ahead of the test for "name"
ClassifyIdFirst(h_raw) ==
    IF Contains(S_employee, h_raw) /\ Contains(S_id, h_raw) THEN K_EmployeeID
    ELSE IF Contains(S_name, h_raw) THEN K_Name
    ELSE IF Contains(S_room, h_raw) THEN K_RoomNumber
    ELSE IF Contains(S_wake, h_raw) THEN K_Wake
    ELSE IF Contains(S_sign, h_raw) THEN K_Signature
    ELSE RemoveSpaces(h_raw)

\* the if/elif chain that turns h_raw into a key
Classify(h_raw) ==
    IF Contains(S_name, h_raw) THEN K_Name
    ELSE IF Contains(S_employee, h_raw) /\ Contains(S_id, h_raw) THEN K_EmployeeID
    ELSE IF Contains(S_room, h_raw) THEN K_RoomNumber
    ELSE IF Contains(S_wake, h_raw) THEN K_Wake
    ELSE IF Contains(S_sign, h_raw) THEN K_Signature
    ELSE RemoveSpaces(h_raw)

\* the loop over enumerate(header, start=1) for row r: acc is [row, empty]
RECURSIVE RowLoop(_, _, _, _, _)
RowLoop(cs, hdr, r, ci, acc) ==
    IF ci > Len(hdr) THEN acc
    ELSE LET val == Strip(Or(Get(cs, <<r, ci>>), <<>>))
         IN  RowLoop(cs, hdr, r, ci + 1,
                     [row |-> Put(acc.row, hdr[ci], val),
                      empty |-> IF val # <<>> THEN FALSE ELSE acc.empty])

\* whether row r is appended to out_rows (line 68)
Emit(built) == ~built.empty

\* the loop over range(2, rmax + 1)
RECURSIVE DataRows(_, _, _, _)
DataRows(cs, hdr, r, rm) ==
    IF r > rm THEN <<>>
    ELSE LET built == RowLoop(cs, hdr, r, 1, [row |-> EmptyDict, empty |-> TRUE])
         IN  (IF Emit(built) THEN <<built.row>> ELSE <<>>)
             \o DataRows(cs, hdr, r + 1, rm)

\* the loop over range(1, cmax + 1): the h_raw of each column
RECURSIVE HRawLoop(_, _, _)
HRawLoop(cs, c, cm) ==
    IF c > cm THEN <<>> ELSE <<HRaw(cs, c)>> \o HRawLoop(cs, c + 1, cm)

RECURSIVE ClassifyAll(_)
ClassifyAll(hs) ==
    IF hs = <<>> THEN <<>> ELSE <<Classify(Head(hs))>> \o ClassifyAll(Tail(hs))

(***************************************************************************)
(* Block lists parse_first_table is run on.                                *)
(***************************************************************************)
W_Employee == <<"E", "m", "p", "l", "o", "y", "e", "e">>
W_ID == <<"I", "D">>
W_Name == <<"N", "a", "m", "e">>
W_Room == <<"R", "o", "o", "m">>
W_Wake == <<"W", "a", "k", "e">>
W_Sign == <<"S", "i", "g", "n">>
W_Date == <<"D", "a", "t", "e">>
W_Bob == <<"B", "o", "b">>

Rel(type, ids) == [Type |-> type, Ids |-> ids]

Word(n, text) == Block(<<"w", n>>, "WORD", <<>>, 0, 0, text, "None")
Selection(n, status) == Block(<<"s", n>>, "SELECTION_ELEMENT", <<>>, 0, 0, None, status)

\* the WORD and SELECTION_ELEMENT blocks of every block list
Pool ==
    << Word(1, W_Employee), Word(2, W_ID), Word(3, W_Name), Word(4, W_Room),
       Word(5, W_Wake), Word(6, W_Sign), Word(7, W_Date), Word(8, <<>>),
       Word(9, None), Word(10, W_Bob),
       Selection(1, "SELECTED"), Selection(2, "NOT_SELECTED") >>

Dangling == <<"x", 0>>      \* an id no block carries

\* what a header cell may hold as children
HeaderItems ==
    { <<"w", n>> : n \in 1..9 } \cup { <<"s", 1>>, <<"s", 2>>, Dangling }

CellId(k) == <<"c", k>>

Cell(k, r, c, ids) ==
    Block(CellId(k), "CELL",
          IF ids = <<>> THEN <<>> ELSE <<Rel("CHILD", ids)>>, r, c, None, "None")

Table(n, rels) == Block(<<"t", n>>, "TABLE", rels, 0, 0, None, "None")

\* a cell of the sheet: its place and its words
CellSpecs ==
    [r : 1..2, c : 1..2, ids : { <<>>, << <<"w", 3>> >>, << <<"w", 10>> >> }]

RECURSIVE CellBlocks(_, _)
CellBlocks(specs, k) ==
    IF k > Len(specs) THEN <<>>
    ELSE <<Cell(k, specs[k].r, specs[k].c, specs[k].ids)>> \o CellBlocks(specs, k + 1)

RECURSIVE CellIds(_, _)
CellIds(lo, hi) == IF lo > hi THEN <<>> ELSE <<CellId(lo)>> \o CellIds(lo + 1, hi)

Layouts == {"none", "all", "junk", "two"}

\* the block list of a sheet with the cells specs under layout:
\*   none  no TABLE block
\*   all   one TABLE whose children are the cells
\*   junk  one TABLE whose children are a dangling id, a WORD and all cells
\*         but the last, which a relationship of another type names
\*   two   a TABLE of all cells but the last, and a second TABLE of the last
Sheet(specs, layout) ==
    LET n == Len(specs)
        cs == CellBlocks(specs, 1)
    IN  CASE layout = "none" -> cs \o Pool
          [] layout = "all" ->
                <<Table(1, <<Rel("CHILD", CellIds(1, n))>>)>> \o cs \o Pool
          [] layout = "junk" ->
                cs \o <<Table(1, << Rel("MERGED_CELL", CellIds(n, n)),
                                   Rel("CHILD", <<Dangling, <<"w", 10>> >>),
                                   Rel("CHILD", CellIds(1, n - 1)) >>)>> \o Pool
          [] layout = "two" ->
                <<Table(1, <<Rel("CHILD", CellIds(1, n - 1))>>)>> \o cs
                \o <<Table(2, <<Rel("CHILD", CellIds(n, n))>>)>> \o Pool

Sheets ==
    { Sheet(specs, layout) :
        specs \in UNION { [1..n -> CellSpecs] : n \in 0..MaxCells },
        layout \in Layouts }

\* a one-column sheet whose header cell holds the children ids, with or
\* without the TABLE block that names its cells
HeaderSheet(ids, tabled) ==
    (IF tabled THEN << Table(1, <<Rel("CHILD", <<CellId(1), CellId(2)>>)>>) >> ELSE <<>>)
    \o << Cell(1, 1, 1, ids), Cell(2, 2, 1, << <<"w", 10>> >>) >> \o Pool

HeaderSheets ==
    { HeaderSheet(ids, tabled) :
        ids \in UNION { [1..n -> HeaderItems] : n \in 0..MaxWords },
        tabled \in BOOLEAN }

(***************************************************************************)
(* sim, find_best_match and the body of the loop of process.               *)
(***************************************************************************)
RECURSIVE GCD(_, _)
GCD(a, b) == IF b = 0 THEN a ELSE GCD(b, a % b)

\* the float n / d, d > 0
Frac(n, d) == LET g == GCD(n, d) IN <<n \div g, d \div g>>

Geq(x, y) == x[1] * y[2] >= y[1] * x[2]
Gt(x, y) == x[1] * y[2] > y[1] * x[2]

Zero == <<0, 1>>            \* 0.0
MatchThreshold == <<1, 2>>  \* 0.5
ValidThreshold == <<9, 10>> \* 0.90

MaxOf(S) == CHOOSE x \in S : \A y \in S : y <= x
MinOf(S) == CHOOSE x \in S : \A y \in S : x <= y

\* the length of the common run of a[i:ahi] and b[j:bhi] (0-based i, j)
RECURSIVE RunLen(_, _, _, _, _, _)
RunLen(a, b, i, j, ahi, bhi) ==
    IF i < ahi /\ j < bhi /\ a[i + 1] = b[j + 1]
    THEN 1 + RunLen(a, b, i + 1, j + 1, ahi, bhi)
    ELSE 0

\* the length of the common run at every pair of places of a[alo:ahi], b[blo:bhi]
BlockLens(a, b, alo, ahi, blo, bhi) ==
    [p \in (alo..(ahi - 1)) \X (blo..(bhi - 1)) |->
        RunLen(a, b, p[1], p[2], ahi, bhi)]

\* of the blocks of length k that start at i in a, the earliest in b
EarliestInB(lens, k, i) ==
    <<i, MinOf({ p[2] : p \in { q \in DOMAIN lens : q[1] = i /\ lens[q] = k } }), k>>

\* of the blocks of length k, the earliest in a, and of those the earliest in b
EarliestBlock(lens, k, alo, blo) ==
    IF k = 0 THEN <<alo, blo, 0>>
    ELSE EarliestInB(lens, k,
                     MinOf({ p[1] : p \in { q \in DOMAIN lens : lens[q] = k } }))

\* SequenceMatcher.find_longest_match without junk: (i, j, k) of the longest
\* block, the earliest in a, and of those the earliest in b
find_longest_match(a, b, alo, ahi, blo, bhi) ==
    EarliestBlock(BlockLens(a, b, alo, ahi, blo, bhi),
                  MaxOf({ RunLen(a, b, p[1], p[2], ahi, bhi) :
                            p \in (alo..(ahi - 1)) \X (blo..(bhi - 1)) } \cup {0}),
                  alo, blo)

\* SequenceMatcher.get_matching_blocks on a[alo:ahi], b[blo:bhi]: the total
\* size of the blocks, m being the longest one
RECURSIVE Matches(_, _, _, _, _, _)
RECURSIVE MatchesAround(_, _, _, _, _, _, _)
MatchesAround(a, b, alo, ahi, blo, bhi, m) ==
    IF m[3] = 0 THEN 0
    ELSE m[3]
         + (IF alo < m[1] /\ blo < m[2]
            THEN Matches(a, b, alo, m[1], blo, m[2]) ELSE 0)
         + (IF m[1] + m[3] < ahi /\ m[2] + m[3] < bhi
            THEN Matches(a, b, m[1] + m[3], ahi, m[2] + m[3], bhi) ELSE 0)

Matches(a, b, alo, ahi, blo, bhi) ==
    MatchesAround(a, b, alo, ahi, blo, bhi,
                  find_longest_match(a, b, alo, ahi, blo, bhi))

\* SequenceMatcher(None, a, b).ratio()
ratio(a, b) ==
    IF Len(a) + Len(b) = 0 THEN <<1, 1>>
    ELSE Frac(2 * Matches(a, b, 0, Len(a), 0, Len(b)), Len(a) + Len(b))

\* line 82, a and b being the stripped, lower-cased arguments
SimOf(a, b) == IF a # <<>> /\ b # <<>> THEN ratio(a, b) ELSE Zero

sim(a, b) == SimOf(Lower(Strip(Or(a, <<>>))), Lower(Strip(Or(b, <<>>))))

\* what matched_profile holds when it is None
NoProfile == [NoneType |-> TRUE]

\* profile.get("Name", "")
ProfileName(profile) == IF "Name" \in DOMAIN profile THEN profile.Name ELSE <<>>

\* bool(matched_profile)
Truthy(profile) == profile # NoProfile /\ DOMAIN profile # {}

\* emp_id in all_profiles
HasProfile(profiles, emp_id) == \E k \in DOMAIN profiles : profiles[k].emp_id = emp_id

\* all_profiles[emp_id]
ProfileOf(profiles, emp_id) ==
    profiles[CHOOSE k \in DOMAIN profiles : profiles[k].emp_id = emp_id].profile

NoMatch == [emp_id |-> None, name |-> None, profile |-> NoProfile]

\* whether find_best_match replaces its best match (line 113)
Better(confidence, best_confidence) == Gt(confidence, best_confidence)

\* lines 110-115 for one entry of profiles
BestStep(best, entry, db_name, confidence) ==
    IF Better(confidence, best.confidence)
    THEN [match |-> [emp_id |-> entry.emp_id, name |-> db_name,
                     profile |-> entry.profile],
          confidence |-> confidence]
    ELSE best

\* the loop of find_best_match from entry k on: best is [match, confidence]
RECURSIVE BestLoop(_, _, _, _)
BestLoop(textract_name, profiles, k, best) ==
    IF k > Len(profiles) THEN best
    ELSE BestLoop(textract_name, profiles, k + 1,
                  BestStep(best, profiles[k], ProfileName(profiles[k].profile),
                           sim(textract_name, ProfileName(profiles[k].profile))))

find_best_match(textract_name, profiles) ==
    IF Strip(textract_name) = <<>> THEN [match |-> NoMatch, confidence |-> Zero]
    ELSE BestLoop(textract_name, profiles, 1, [match |-> NoMatch, confidence |-> Zero])

\* line 146
RowName(r) == Strip(Or(Get(r, K_Name), <<>>))

\* RowId without the removal of inner spaces
RowIdUnnormalized(r) == Strip(Or(Get(r, K_EmployeeID), <<>>))

\* line 147
RowId(r) == Strip(RemoveSpaces(Or(Get(r, K_EmployeeID), <<>>)))

\* whether the direct ID match is tried (line 155)
TryDirect(emp_id, profiles) == emp_id # <<>> /\ HasProfile(profiles, emp_id)

\* lines 156-157: [match, confidence]
DirectOf(textract_name, direct_match) ==
    [match |-> direct_match,
     confidence |-> sim(textract_name, ProfileName(direct_match))]

\* lines 152-157: [match, confidence]
Direct(textract_name, emp_id, profiles) ==
    IF TryDirect(emp_id, profiles)
    THEN DirectOf(textract_name, ProfileOf(profiles, emp_id))
    ELSE [match |-> NoProfile, confidence |-> Zero]

\* UseDirect with a strict comparison: a tie goes to the name match
UseDirectStrictly(direct_confidence, name_confidence) ==
    Gt(direct_confidence, name_confidence) /\ Gt(direct_confidence, MatchThreshold)

\* line 164
UseDirect(direct_confidence, name_confidence) ==
    Geq(direct_confidence, name_confidence) /\ Gt(direct_confidence, MatchThreshold)

\* UseName with the threshold included
UseNameFromThreshold(name_confidence) == Geq(name_confidence, MatchThreshold)

\* line 170
UseName(name_confidence) == Gt(name_confidence, MatchThreshold)

\* Valid with the threshold excluded
ValidAbove(matched_profile, confidence) ==
    Truthy(matched_profile) /\ Gt(confidence, ValidThreshold)

\* line 188
Valid(matched_profile, confidence) ==
    Truthy(matched_profile) /\ Geq(confidence, ValidThreshold)

\* lines 163-185: the branch taken, direct and best being [match, confidence]
Choose(textract_name, emp_id, direct, best) ==
    IF UseDirect(direct.confidence, best.confidence)
    THEN [matched_profile |-> direct.match,
          confidence |-> direct.confidence,
          match_type |-> "ID",
          matched_emp_id |-> emp_id,
          extra |-> <<>>]
    ELSE IF UseName(best.confidence)
    THEN [matched_profile |-> best.match.profile,
          confidence |-> best.confidence,
          match_type |-> "NAME",
          matched_emp_id |-> best.match.emp_id,
          extra |-> <<>>]
    ELSE [matched_profile |-> NoProfile,
          confidence |-> Zero,
          match_type |-> "NONE",
          matched_emp_id |-> Or(emp_id, S_UNKNOWN),
          extra |-> IF textract_name # <<>> THEN <<textract_name>> ELSE <<>>]

\* lines 151-188 for a row of name textract_name and identifier emp_id
DecideFor(textract_name, emp_id, profiles) ==
    Choose(textract_name, emp_id,
           Direct(textract_name, emp_id, profiles),
           find_best_match(textract_name, profiles))

\* lines 146-188 for row r: what the iteration decides
Decide(r, profiles) == DecideFor(RowName(r), RowId(r), profiles)

\* Track without the test of matched_profile
TrackEveryRow(matched_profile) == TRUE

\* whether the row's matched_emp_id joins matched_employees (line 191)
Track(matched_profile) == Truthy(matched_profile)

\* HasRoster without the test of all_profiles
DivideAlways(profiles) == TRUE

\* whether the percentage is computed by the division (line 315)
HasRoster(profiles) == profiles # <<>>

\* line 315: [value, raised]
OverallPct(matched, profiles) ==
    IF HasRoster(profiles)
    THEN IF Len(profiles) = 0
         THEN [value |-> Zero, raised |-> ZeroDivisionError]
         ELSE [value |-> Frac(Cardinality(matched) * 100, Len(profiles)),
               raised |-> None]
    ELSE [value |-> Zero, raised |-> None]

(***************************************************************************)
(* Rosters and sheets process is run on.                                   *)
(***************************************************************************)
N_Jane == <<"J", "a", "n", "e", " ", "S", "m", "i", "t", "h">>
N_JaneY == <<"J", "a", "n", "e", " ", "S", "m", "y", "t", "h">>
N_Jan == <<"J", "a", "n", " ", "S", "m", "i", "t">>
N_Ax == <<"A", "x">>
N_Al == <<"A", "l">>
N_AL == <<" ", "A", "L", " ">>
Id_12 == <<"1", "2">>
Id_1_2 == <<"1", " ", "2">>
S_EMP == <<"E", "M", "P", "#">>
S_PROFILE == <<"P", "R", "O", "F", "I", "L", "E">>

\* the emp_id of the profiles: "" is the PK "EMP#"
RosterIds == { <<>>, Id_12 }

\* a profile item of emp_id, with and without the Name attribute
ProfilesOf(emp_id) ==
    { [PK |-> S_EMP \o emp_id, SK |-> S_PROFILE, Name |-> n] : n \in {N_Jane, N_AL} }
    \cup { [PK |-> S_EMP \o emp_id, SK |-> S_PROFILE] }

\* what get_all_employee_profiles returns: profiles under distinct emp_ids
Rosters ==
    { p \in UNION { [1..n -> UNION { { [emp_id |-> e, profile |-> q] : q \in ProfilesOf(e) }
                                      : e \in RosterIds }]
                    : n \in 0..Cardinality(RosterIds) } :
        \A i, j \in DOMAIN p : p[i].emp_id = p[j].emp_id => i = j }

RowNames == { N_Jane, N_JaneY, N_Jan, N_Ax, N_Al }

\* a row of parse_first_table: with or without a Name and an EmployeeID column
RowTypes ==
    { EmptyDict, Put(EmptyDict, K_EmployeeID, Id_1_2) }
    \cup { Put(EmptyDict, K_Name, n) : n \in RowNames }
    \cup { Put(Put(EmptyDict, K_Name, n), K_EmployeeID, Id_1_2) : n \in RowNames }

RowLists == UNION { [1..n -> RowTypes] : n \in 0..MaxRows }

(***************************************************************************)
(* State machine of parse_first_table.                                     *)
(***************************************************************************)
ParseIdle ==
    /\ table_blk = NoBlock /\ cells = EmptyDict /\ rmax = 0 /\ cmax = 0
    /\ h_raws = <<>> /\ header = <<>> /\ out_rows = <<>>

ProcIdle ==
    /\ all_profiles = <<>> /\ rows = <<>> /\ matched_employees = {}
    /\ processed_records = <<>> /\ extra_names = <<>>
    /\ unmatched_employees = {} /\ overall_match_pct = <<0, 1>>

InitParse ==
    /\ pc = "parse" /\ blocks \in Sheets /\ ParseIdle /\ ProcIdle /\ raised = None

InitHeader ==
    /\ pc = "parse" /\ blocks \in HeaderSheets /\ ParseIdle /\ ProcIdle
    /\ raised = None

\* lines 31-34 when there is no TABLE block: return []
NoTable ==
    /\ pc = "parse"
    /\ FirstTable(blocks) = NoBlock
    /\ out_rows' = <<>>
    /\ pc' = "returned"
    /\ UNCHANGED <<blocks, table_blk, cells, rmax, cmax, h_raws, header,
                   procVars, raised>>

\* lines 31-33 when there is one
SelectTable ==
    /\ pc = "parse"
    /\ FirstTable(blocks) # NoBlock
    /\ table_blk' = FirstTable(blocks)
    /\ pc' = "cells"
    /\ UNCHANGED <<blocks, cells, rmax, cmax, h_raws, header, out_rows,
                   procVars, raised>>

\* lines 36-46
CollectCells ==
    /\ pc = "cells"
    /\ \E acc \in {ReadCells(ChildIdsOf(table_blk.Relationships), Idmap(blocks),
                               [cells |-> EmptyDict, rmax |-> 0, cmax |-> 0,
                                raised |-> None])} :
           /\ cells' = acc.cells
           /\ rmax' = acc.rmax
           /\ cmax' = acc.cmax
           /\ raised' = acc.raised
           /\ pc' = IF acc.raised = None THEN "header" ELSE "raised"
    /\ UNCHANGED <<blocks, table_blk, h_raws, header, out_rows, procVars>>

\* lines 48-57
BuildHeader ==
    /\ pc = "header"
    /\ h_raws' = HRawLoop(cells, 1, cmax)
    /\ header' = ClassifyAll(h_raws')
    /\ pc' = "rows"
    /\ UNCHANGED <<blocks, table_blk, cells, rmax, cmax, out_rows, procVars, raised>>

\* lines 59-70
BuildRows ==
    /\ pc = "rows"
    /\ out_rows' = DataRows(cells, header, 2, rmax)
    /\ pc' = "returned"
    /\ UNCHANGED <<blocks, table_blk, cells, rmax, cmax, h_raws, header,
                   procVars, raised>>

\* lines 217-226: the record of row i
Record(i, r, d) ==
    [row |-> i,
     textract_name |-> RowName(r),
     emp_id |-> RowId(r),
     matched_emp_id |-> d.matched_emp_id,
     matched_name |-> IF Truthy(d.matched_profile)
                      THEN ProfileName(d.matched_profile) ELSE <<>>,
     confidence |-> d.confidence,
     match_type |-> d.match_type,
     valid |-> Valid(d.matched_profile, d.confidence)]

\* lines 145-226: one iteration of the loop over rows
ProcessRow ==
    /\ pc = "process"
    /\ Len(processed_records) < Len(rows)
    /\ \E i \in {Len(processed_records) + 1} :
       \E d \in {Decide(rows[i], all_profiles)} :
           /\ extra_names' = extra_names \o d.extra
           /\ matched_employees' =
                IF Track(d.matched_profile)
                THEN matched_employees \cup {d.matched_emp_id}
                ELSE matched_employees
           /\ processed_records' = Append(processed_records, Record(i, rows[i], d))
    /\ UNCHANGED <<pc, parseVars, all_profiles, rows, unmatched_employees,
                   overall_match_pct, raised>>

\* lines 307-319: the aggregates after the loop
Summarize ==
    /\ pc = "process"
    /\ Len(processed_records) = Len(rows)
    /\ unmatched_employees' =
          { all_profiles[k].emp_id : k \in DOMAIN all_profiles } \ matched_employees
    /\ \E pct \in {OverallPct(matched_employees, all_profiles)} :
           /\ overall_match_pct' = pct.value
           /\ raised' = pct.raised
           /\ pc' = IF pct.raised = None THEN "complete" ELSE "raised"
    /\ UNCHANGED <<parseVars, all_profiles, rows, matched_employees,
                   processed_records, extra_names>>

Init ==
    /\ pc = "process"
    /\ blocks = <<>> /\ ParseIdle
    /\ all_profiles \in Rosters
    /\ rows \in RowLists
    /\ matched_employees = {} /\ processed_records = <<>> /\ extra_names = <<>>
    /\ unmatched_employees = {} /\ overall_match_pct = Zero
    /\ raised = None

Next == ProcessRow \/ Summarize

Spec == Init /\ [][Next]_vars

NextParse == NoTable \/ SelectTable \/ CollectCells \/ BuildHeader \/ BuildRows

SpecParse == InitParse /\ [][NextParse]_vars

SpecHeader == InitHeader /\ [][NextParse]_vars

(***************************************************************************)
(* Properties of process.                                                  *)
(***************************************************************************)
RosterIdSet == { all_profiles[k].emp_id : k \in DOMAIN all_profiles }

\* similarity(a, b) of every row name a and roster name b, tabulated
Similarity ==
    [p \in (RowNames \cup {<<>>}) \X { ProfileName(q) : q \in ProfilesOf(<<>>) }
        |-> sim(p[1], p[2])] @@ <<>>

\* similarity(name, name of the roster record keyed by id)
SimTo(name, id) == Similarity[<<name, ProfileName(ProfileOf(all_profiles, id))>>]

MaxFrac(S) == CHOOSE x \in S : \A y \in S : Geq(x, y)

\* the name and the normalized identifier of row k
NameOfRow(k) == Or(Get(rows[k], K_Name), <<>>)
IdOfRow(k) == RemoveSpaces(Or(Get(rows[k], K_EmployeeID), <<>>))

\* what the roster says of a row of that name and normalized identifier:
\*   own     the similarity of the name to the record keyed by the identifier,
\*           0 when the identifier is not a roster key
\*   max     the maximum similarity of the name over all roster records
\*   others  the similarities of the name to the other roster records
Facts(name, id) ==
    [name |-> name,
     id |-> id,
     keyed |-> id \in RosterIdSet,
     own |-> IF id \in RosterIdSet THEN SimTo(name, id) ELSE <<0, 1>>,
     max |-> MaxFrac({ SimTo(name, o) : o \in RosterIdSet } \cup {<<0, 1>>}),
     others |-> { SimTo(name, o) : o \in RosterIdSet \ {id} }]

\* P(record, facts) of every processed row
EveryRow(P(_, _)) ==
    \A k \in DOMAIN processed_records :
        \E f \in {Facts(NameOfRow(k), IdOfRow(k))} : P(processed_records[k], f)

\* P(record, facts) of some processed row
SomeRow(P(_, _)) ==
    \E k \in DOMAIN processed_records :
        \E f \in {Facts(NameOfRow(k), IdOfRow(k))} : P(processed_records[k], f)

\* the selection policy for a row of match type t
Policy(t, direct, name) ==
    /\ (t = "ID") <=> (Geq(direct, name) /\ Gt(direct, <<1, 2>>))
    /\ (t = "NAME") <=> (~(Geq(direct, name) /\ Gt(direct, <<1, 2>>))
                          /\ Gt(name, <<1, 2>>))
    /\ (t = "NONE") <=> (~(Geq(direct, name) /\ Gt(direct, <<1, 2>>))
                          /\ ~Gt(name, <<1, 2>>))

\* directConfidence with the empty identifier never taking the direct path
DirectNonEmpty(f) == IF f.id # <<>> THEN f.own ELSE <<0, 1>>

PolicyByKey(rec, f) == Policy(rec.match_type, f.own, f.max)

PolicyByNonEmptyKey(rec, f) == Policy(rec.match_type, DirectNonEmpty(f), f.max)

\* C1 as stated: directConfidence is the similarity to the record keyed by the
\* row's normalized identifier whenever that identifier is a roster key, and
\* the match type follows the selection policy (ID on direct >= name and
\* direct > 0.5, else NAME on name > 0.5, else NONE).
C1_PolicyByKey == EveryRow(PolicyByKey)

\* C1 amended: the same policy, with directConfidence 0 also when the row's
\* normalized identifier is empty (even if the roster holds a record keyed by
\* the empty string).
C1_PolicyByNonEmptyKey == EveryRow(PolicyByNonEmptyKey)

IdOnTie(rec, f) ==
    /\ rec.match_type = "ID"
    /\ DirectNonEmpty(f) = f.max
    /\ f.max \in f.others

\* a row matched by ID on a tie with another record that is as similar
C1_Witness == SomeRow(IdOnTie)

\* C2: the valid flag of every record is true exactly when its match type is
\* not NONE and its confidence is at least 0.90.
C2_ValidIff ==
    \A k \in DOMAIN processed_records :
        processed_records[k].valid
            <=> (/\ processed_records[k].match_type # "NONE"
                 /\ Geq(processed_records[k].confidence, <<9, 10>>))

\* a valid row of confidence exactly 0.90 and a matched row just below it
C2_Witness ==
    /\ \E k \in DOMAIN processed_records :
          /\ processed_records[k].confidence = <<9, 10>>
          /\ processed_records[k].valid
    /\ \E k \in DOMAIN processed_records :
          /\ processed_records[k].confidence = <<8, 9>>
          /\ processed_records[k].match_type = "NAME"
          /\ ~processed_records[k].valid

MatchedRecords ==
    { k \in DOMAIN processed_records : processed_records[k].match_type # "NONE" }

\* C4: matched_employees is the set of matched identifiers of the rows of type
\* ID or NAME, valid or not; its elements are roster identifiers; and after
\* the loop unmatched_employees is the rest of the roster.
C4_MatchedPartition ==
    /\ matched_employees = { processed_records[k].matched_emp_id : k \in MatchedRecords }
    /\ matched_employees \subseteq RosterIdSet
    /\ pc = "complete" =>
          /\ unmatched_employees = RosterIdSet \ matched_employees
          /\ unmatched_employees \cup matched_employees = RosterIdSet
          /\ unmatched_employees \cap matched_employees = {}

\* two rows, neither valid, matched to one roster identity, which is counted once
C4_Witness ==
    /\ pc = "complete"
    /\ \E j, k \in DOMAIN processed_records :
          /\ j # k
          /\ processed_records[j].matched_emp_id = processed_records[k].matched_emp_id
          /\ processed_records[j].match_type # "NONE"
          /\ processed_records[k].match_type # "NONE"
          /\ ~processed_records[j].valid /\ ~processed_records[k].valid
    /\ Cardinality(matched_employees) = 1
    /\ unmatched_employees # {}

\* C5: process never leaves by an exception; the percentage it ends with is
\* |matched| / |roster| x 100 for a non-empty roster and 0 for an empty one,
\* and lies between 0 and 100.
C5_Percentage ==
    /\ pc # "raised" /\ raised = None
    /\ pc = "complete" =>
          /\ all_profiles # <<>> =>
                overall_match_pct[1] * Len(all_profiles)
                    = 100 * Cardinality(matched_employees) * overall_match_pct[2]
          /\ all_profiles = <<>> => overall_match_pct = <<0, 1>>
          /\ Geq(overall_match_pct, <<0, 1>>)
          /\ Geq(<<100, 1>>, overall_match_pct)

\* a sheet with a named row reconciled against an empty roster
C5_Witness ==
    /\ pc = "complete"
    /\ all_profiles = <<>>
    /\ \E k \in DOMAIN processed_records :
          /\ processed_records[k].textract_name # <<>>
          /\ processed_records[k].match_type = "NONE"
    /\ overall_match_pct = <<0, 1>>

\* the names of the records of type NONE that have one, in row order
RECURSIVE NamesOfUnmatched(_)
NamesOfUnmatched(recs) ==
    IF recs = <<>> THEN <<>>
    ELSE (IF Head(recs).match_type = "NONE" /\ Head(recs).textract_name # <<>>
          THEN <<Head(recs).textract_name>> ELSE <<>>)
         \o NamesOfUnmatched(Tail(recs))

NoMatchRecord(rec, f) ==
    /\ rec.match_type = "NONE" =>
          /\ rec.confidence = <<0, 1>>
          /\ rec.matched_name = <<>>
          /\ rec.matched_emp_id =
                (IF f.id = <<>> THEN <<"U", "N", "K", "N", "O", "W", "N">> ELSE f.id)
    /\ (f.name = <<>> /\ f.id = <<>>) =>
          /\ rec.match_type = "NONE"
          /\ rec.matched_emp_id = <<"U", "N", "K", "N", "O", "W", "N">>

\* C6: a row of type NONE has confidence 0, an empty matched name, and as
\* matched identifier its own normalized identifier, or "UNKNOWN" when that
\* is empty; extra_names holds exactly the non-empty names of the NONE rows;
\* a row without name and identifier is NONE with identifier "UNKNOWN".
C6_NoMatchRecord ==
    /\ EveryRow(NoMatchRecord)
    /\ extra_names = NamesOfUnmatched(processed_records)

Anonymous(rec, f) ==
    f.name = <<>> /\ f.id = <<>> /\ rec.matched_emp_id = S_UNKNOWN

UnmatchedWithId(rec, f) ==
    /\ rec.match_type = "NONE"
    /\ f.id # <<>> /\ rec.matched_emp_id = f.id
    /\ rec.textract_name # <<>>

\* against a non-empty roster: a row without name and identifier, a NONE row
\* with an identifier of its own, and its name in extra_names
C6_Witness ==
    /\ all_profiles # <<>>
    /\ SomeRow(Anonymous)
    /\ SomeRow(UnmatchedWithId)
    /\ Len(extra_names) = 1

\* the parts of C10 that hold as stated: nameConfidence >= directConfidence;
\* a matched row records the maximum similarity, which is > 0.5, and is
\* attributed to a record that attains it; ID only when the record keyed by
\* the row's identifier attains the maximum; confidence is 0 exactly for the
\* NONE rows and otherwise > 0.5
MaxWins(rec, f) ==
    /\ Geq(f.max, f.own)
    /\ rec.match_type # "NONE" =>
          /\ rec.confidence = f.max
          /\ Gt(rec.confidence, <<1, 2>>)
          /\ rec.matched_emp_id \in RosterIdSet
          /\ SimTo(f.name, rec.matched_emp_id) = f.max
    /\ rec.match_type = "ID" =>
          /\ rec.matched_emp_id = f.id
          /\ f.keyed /\ f.own = f.max
    /\ (rec.confidence = <<0, 1>>) <=> (rec.match_type = "NONE")
    /\ rec.confidence = <<0, 1>> \/ Gt(rec.confidence, <<1, 2>>)

\* the row carries an identifier that is a roster key and its name is
\* strictly more similar to a different roster record
OtherIsCloser(f) ==
    /\ f.id # <<>>
    /\ f.keyed
    /\ \E x \in f.others : Gt(x, f.own)

\* the row is attributed by name to a record other than the one of its
\* identifier
ToOtherByName(rec, f) == rec.match_type = "NAME" /\ rec.matched_emp_id # f.id

OtherAlwaysWins(rec, f) ==
    MaxWins(rec, f) /\ (OtherIsCloser(f) => ToOtherByName(rec, f))

OtherWinsAboveThreshold(rec, f) ==
    /\ MaxWins(rec, f)
    /\ OtherIsCloser(f) =>
          IF Gt(f.max, <<1, 2>>) THEN ToOtherByName(rec, f)
          ELSE rec.match_type = "NONE"

\* C10 as stated: every row whose identifier is a roster key but whose name is
\* strictly more similar to a different roster record is attributed to that
\* record with match type NAME (stated here for the rows that carry an
\* identifier).
C10_OtherAlwaysWins == EveryRow(OtherAlwaysWins)

\* C10 amended: such a row is attributed to the other record with match type
\* NAME when the maximum similarity exceeds 0.5, and is NONE otherwise.
C10_OtherWinsAboveThreshold == EveryRow(OtherWinsAboveThreshold)

CloserOtherTaken(rec, f) == OtherIsCloser(f) /\ ToOtherByName(rec, f)

\* a row whose identifier is a roster key attributed by name to another record
C10_Witness == SomeRow(CloserOtherTaken)

(***************************************************************************)
(* Properties of parse_first_table.                                        *)
(***************************************************************************)
Range(f) == { f[x] : x \in DOMAIN f }

HasTable == \E i \in DOMAIN blocks : blocks[i].BlockType = "TABLE"

\* the first TABLE block in input order
FirstTableBlock ==
    blocks[MinOf({ i \in DOMAIN blocks : blocks[i].BlockType = "TABLE" })]

\* the CELL blocks that a CHILD relationship of the first TABLE names
CellsOfFirstTable ==
    { b \in Range(blocks) :
        /\ b.BlockType = "CELL"
        /\ \E rel \in Range(FirstTableBlock.Relationships) :
              rel.Type = "CHILD" /\ b.Id \in Range(rel.Ids) }

\* C7: parse_first_table never raises; without a TABLE block it returns the
\* empty sequence; with several it reads the first one only, and of that
\* table's child ids only those that resolve to a CELL block.
C7_FirstTableOnly ==
    /\ pc # "raised" /\ raised = None
    /\ (pc = "returned" /\ ~HasTable) => out_rows = <<>>
    /\ (pc \in {"header", "rows", "returned"} /\ HasTable) =>
          /\ table_blk = FirstTableBlock
          /\ DOMAIN cells = { <<b.RowIndex, b.ColumnIndex>> : b \in CellsOfFirstTable }
          /\ rmax = MaxOf({ b.RowIndex : b \in CellsOfFirstTable } \cup {0})
          /\ cmax = MaxOf({ b.ColumnIndex : b \in CellsOfFirstTable } \cup {0})

\* a block list with cells with text but no TABLE block, after the return
C7_Witness ==
    /\ pc = "returned"
    /\ ~HasTable
    /\ \E b \in Range(blocks) : b.BlockType = "CELL" /\ b.Relationships # <<>>
    /\ out_rows = <<>>

\* C3 as stated: every row parse_first_table returns holds a non-empty value.
C3_NoAllEmptyRow ==
    pc = "returned" =>
        \A k \in DOMAIN out_rows :
            \E key \in DOMAIN out_rows[k] : out_rows[k][key] # <<>>

\* the key C8 gives a lower-cased header text
KeyByPriority(h, key) ==
    /\ Contains(<<"n", "a", "m", "e">>, h) => key = <<"N", "a", "m", "e">>
    /\ (key = <<"E", "m", "p", "l", "o", "y", "e", "e", "I", "D">>)
          <=> (/\ ~Contains(<<"n", "a", "m", "e">>, h)
               /\ Contains(<<"e", "m", "p", "l", "o", "y", "e", "e">>, h)
               /\ Contains(<<"i", "d">>, h))
    /\ (/\ ~Contains(<<"n", "a", "m", "e">>, h)
        /\ ~(Contains(<<"e", "m", "p", "l", "o", "y", "e", "e">>, h)
             /\ Contains(<<"i", "d">>, h)))
          => IF Contains(<<"r", "o", "o", "m">>, h)
             THEN key = <<"R", "o", "o", "m", "N", "u", "m", "b", "e", "r">>
             ELSE IF Contains(<<"w", "a", "k", "e">>, h)
             THEN key = <<"W", "a", "k", "e">>
             ELSE IF Contains(<<"s", "i", "g", "n">>, h)
             THEN key = <<"S", "i", "g", "n", "a", "t", "u", "r", "e">>
             ELSE key = SelectSeq(h, LAMBDA ch : ch # " ")

\* C8: the key of every column is decided by the first test that succeeds on
\* the lower-cased header text, in the order name, employee and id, room,
\* wake, sign; a header that passes none keeps its text without spaces.
C8_HeaderPriority ==
    pc \in {"rows", "returned"} =>
        /\ Len(header) = cmax /\ Len(h_raws) = cmax
        /\ \A c \in 1..cmax :
              /\ KeyByPriority(h_raws[c], header[c])
              /\ Or(Get(cells, <<1, c>>), <<>>) # <<>> =>
                    h_raws[c] = Lower(cells[<<1, c>>])

\* a header with "employee", "id" and "name" in it, classified Name
C8_Witness ==
    /\ pc = "returned"
    /\ \E c \in 1..cmax :
          /\ Contains(<<"n", "a", "m", "e">>, h_raws[c])
          /\ Contains(<<"e", "m", "p", "l", "o", "y", "e", "e">>, h_raws[c])
          /\ Contains(<<"i", "d">>, h_raws[c])
          /\ header[c] = K_Name

\* column c has no cell at row 1, or one whose text is empty
NoHeaderText(c) == Or(Get(cells, <<1, c>>), <<>>) = <<>>

\* column c's header text is text, and so is its key, in every row returned
ColumnNamed(c, text) ==
    /\ h_raws[c] = text
    /\ header[c] = text
    /\ pc = "returned" => \A k \in DOMAIN out_rows : text \in DOMAIN out_rows[k]

\* C9 as stated: a column without header text is classified on the empty
\* string, which is its key in every row.
C9_EmptyHeaderText ==
    pc \in {"rows", "returned"} =>
        \A c \in 1..cmax : NoHeaderText(c) => ColumnNamed(c, <<>>)

\* C9 amended: a column c without header text is classified on "col<c>", the
\* lower-cased "Col" followed by the column number, which is its key in
\* every row.
C9_SyntheticColumnName ==
    pc \in {"rows", "returned"} =>
        \A c \in 1..cmax :
            NoHeaderText(c) => ColumnNamed(c, <<"c", "o", "l">> \o IntStr(c))

\* a returned row of a table with a column that has no cell at row 1
C9_Witness ==
    /\ pc = "returned"
    /\ out_rows # <<>>
    /\ \E c \in 1..cmax : <<1, c>> \notin DOMAIN cells

====
